---- MODULE Spec2Model ----
(***************************************************************************)
(* A model of ais-forwarder: the Location worker with its persistence      *)
(* store (ais-forwarder/src/location.rs, cache.rs) and the Dispatcher with *)
(* its rate limit table and location schedule (ais-forwarder/src/main.rs). *)
(*                                                                         *)
(* Time is in whole seconds (the code compares Duration::as_secs()).       *)
(* Positions are in thousandths of a degree, so that the threshold 0.001   *)
(* of is_moving is one unit.  An Option is a sequence of length 0 or 1.    *)
(* A string built by format! is a sequence of tokens; "," is a token of    *)
(* its own, and an empty string contributes no token.                      *)
(***************************************************************************)
EXTENDS Integers, Sequences, FiniteSets, TLC

-----------------------------------------------------------------------------
(* Bounds of the model *)

\* key timestamps handed out to stored records
MaxKey == 1
\* messages waiting in the handoff channel
MaxChan == 2
\* seconds that pass in one step of the worker's wait
TickSecs == 30
\* entries the store iterator fails to read in one resend cycle
MaxReadErrors == 1
\* the [general] mmsi of the configuration
OwnMmsi == 7

\* TCP connections one endpoint opens
MaxSockets == 3
\* connections a listening endpoint holds at a time
MaxStreams == 2
\* lines that wait in the fragment accumulator
MaxFragments == 2
\* the count of a Persistence under store and clear
MaxCount == 3
\* the Dispatcher's clock stops here
MaxTime == 4
\* [general] interval, location_interval, location_anchor_interval, in seconds
interval == 1
location_interval == 2
location_anchor_interval == 3

\* if lat_diff > 0.001 || long_diff > 0.001, in thousandths of a degree
MovingThreshold == 1
\* std::thread::sleep(Duration::from_secs(1)) of the main loop
RestartSleep == 1

\* const MESSAGE_TIMEOUT: Duration = Duration::from_secs(60)
MESSAGE_TIMEOUT == 60

-----------------------------------------------------------------------------
(* Option<T> *)

None == <<>>
Some(x) == <<x>>
IsSome(o) == o # <<>>
unwrap_or(o, d) == IF o = <<>> THEN d ELSE o[1]

Abs(x) == IF x < 0 THEN -x ELSE x

\* let x = v in F(x), with v evaluated once
Let(v, F(_)) == CHOOSE r \in {F(x) : x \in {v}} : TRUE

-----------------------------------------------------------------------------
(* The [location] section: sink names, in byte order.  `location` (a       *)
(* variable) is the HashMap of the worker, as the sequence of its keys in  *)
(* the order iter_mut() yields them, which is any order but the same one   *)
(* on every iteration, the map never being modified.                       *)

SinkNames == <<"a", "b">>
LocationMaps == {<<"a">>, <<"b", "a">>}
SinksOf(loc) == {loc[i] : i \in DOMAIN loc}
SinkRank(s) == CHOOSE i \in DOMAIN SinkNames : SinkNames[i] = s

-----------------------------------------------------------------------------
(* Formatting of the location sentence *)

Pad5(n) ==
    IF n < 10 THEN "0000" \o ToString(n)
    ELSE IF n < 100 THEN "000" \o ToString(n)
    ELSE IF n < 1000 THEN "00" \o ToString(n)
    ELSE IF n < 10000 THEN "0" \o ToString(n)
    ELSE ToString(n)

\* format!("{:.5}", x), x given in units of 0.00001
Fmt5(x) == ToString(x \div 100000) \o "." \o Pad5(x % 100000)

\* format!("{:.1}", x), x given in tenths
Fmt1(x) == ToString(x \div 10) \o "." \o ToString(x % 10)

format_option(value) ==
    IF IsSome(value) THEN <<Fmt1(value[1])>> ELSE <<>>

\* a format_lat_long that writes nothing for an absent coordinate
FormatLatLongEmpty(latlon, is_lat) ==
    IF IsSome(latlon)
    THEN <<Fmt5(Abs(latlon[1]) * 6000), ",", IF latlon[1] >= 0 THEN "N" ELSE "S">>
    ELSE <<>>

format_lat_long(latlon, is_lat) ==
    IF IsSome(latlon)
    THEN LET value == latlon[1]
             hemisphere == IF is_lat
                           THEN (IF value >= 0 THEN "N" ELSE "S")
                           ELSE (IF value >= 0 THEN "E" ELSE "W")
             abs_value == Abs(value)
             degrees == abs_value \div 1000
             \* minutes, in units of 0.00001 minute
             minutes == (abs_value - degrees * 1000) * 6000
         IN  <<Fmt5(degrees * 100 * 100000 + minutes), ",", hemisphere>>
    ELSE <<",">>

\* now.format("%H%M%S") and now.format("%d%m%y") of a clock reading
TimeField(t) == <<"hhmmss@" \o ToString(t)>>
DateField(t) == <<"ddmmyy@" \o ToString(t)>>

\* the format! calls of parse_message; None for the `_` arm
nmea_message(message, now, mmsi) ==
    IF message.kind = "VesselDynamicData"
    THEN Some(<<ToString(message.mmsi), "$GNRMC", ",">> \o TimeField(now)
              \o <<",", "A", ",">> \o format_lat_long(message.latitude, TRUE)
              \o <<",">> \o format_lat_long(message.longitude, FALSE)
              \o <<",">> \o <<>> \o <<",">> \o <<>> \o <<",">> \o DateField(now)
              \o <<",", ",", ",", "A", "\r\n">>)
    ELSE IF message.kind = "Rmc"
    THEN LET ts == unwrap_or(message.timestamp, now)
         IN  Some(<<ToString(mmsi), "$GNRMC", ",">> \o TimeField(ts)
              \o <<",", "A", ",">> \o format_lat_long(message.latitude, TRUE)
              \o <<",">> \o format_lat_long(message.longitude, FALSE)
              \o <<",">> \o format_option(message.sog_knots)
              \o <<",">> \o format_option(message.bearing)
              \o <<",">> \o DateField(ts)
              \o <<",", ",", ",", "A", "\r\n">>)
    ELSE None

-----------------------------------------------------------------------------
(* Messages the Dispatcher hands to the worker in the worker's model *)

VDD(mmsi, own, lat, long) ==
    [kind |-> "VesselDynamicData", mmsi |-> mmsi, own_vessel |-> own,
     latitude |-> lat, longitude |-> long]
RMC(ts, lat, long, sog, cog) ==
    [kind |-> "Rmc", timestamp |-> ts, latitude |-> lat, longitude |-> long,
     sog_knots |-> sog, bearing |-> cog]

HandoffMessages ==
    { VDD(OwnMmsi, TRUE, Some(53170), Some(-5420)),
      RMC(None, Some(53180), None, Some(51), None) }

-----------------------------------------------------------------------------
(* State of the Location worker thread *)

VARIABLES
    location,       \* Location.location: the sinks, in iteration order
    up,             \* the environment: which sinks accept a connection and a write
    db,             \* Persistence.db: the sled tree, key -> value
    count,          \* Persistence.count: the cached number of entries
    connection_ok,  \* the local flag of location_loop
    chan,           \* the mpsc channel from the Dispatcher to the worker
    wpc,            \* "start" before the first resend_messages, then "loop"
    waited,         \* steps the current recv_timeout has been waiting
    keyClock,       \* the latest chrono::Utc::now() that became part of a key
    cycle,          \* history: the resend cycle of the latest worker step
    cycleLog,       \* history: what that cycle did, in order
    msgLog,         \* history: what parse_message did in the latest worker step
    lastMsg         \* history: the message the latest worker step handled

wvars == <<location, up, db, count, connection_ok, chan, wpc, waited, keyClock,
           cycle, cycleLog, msgLog, lastMsg>>

\* One tcp-connect NetworkEndpoint that send_message writes to
VARIABLES
    protocol,       \* NetworkEndpoint.protocol
    tcp_listener,   \* NetworkEndpoint.tcp_listener is Some
    udp_socket,     \* NetworkEndpoint.udp_socket is Some
    tcp_stream,     \* NetworkEndpoint.tcp_stream: the sockets it holds
    sockets,        \* TcpStream::connect calls that returned a socket so far
    gone,           \* the sockets whose peer has gone away
    failed_sockets, \* history: the sockets a send_message call failed on
    call            \* history: the latest call of send_message

evars == <<protocol, tcp_listener, udp_socket, tcp_stream, sockets, gone,
          failed_sockets, call>>

\* The state of the Dispatcher (main thread)
VARIABLES
    clock,                  \* Instant::now(), in seconds
    last_sent,              \* Dispatcher.last_sent: mmsi -> LastSent
    last_sent_location,     \* Dispatcher.last_sent_location
    next_instant,           \* work's local next_location_instant
    next_anchor_instant,    \* work's local next_location_anchor_instant
    allow_ais_for_location, \* work's local of that name
    prev_lat,               \* work's local of that name
    prev_long,              \* work's local of that name
    fragments,              \* work's local of that name
    provider,               \* Dispatcher.provider.tcp_stream: "none", "open",
                            \* or "eof" once the peer has closed it
    running,                \* FALSE once the process has called exit(1)
    pending,                \* history: the lines so far of the message that
                            \* the provider is sending
    lastRead,               \* history: what the latest read_from_provider gave
    fresh,                  \* history: this Dispatcher has yet to process a
                            \* location-eligible message with a position
    lastPermit,             \* history: field -> when check_last_sent last passed
    seen,                   \* history: the fields a message has been seen of,
                            \* and "rmc" once an Rmc has been processed
    lastHandoff,            \* history: the latest send on location_tx
    emit                    \* history: the line the latest step processed

dvars == <<clock, last_sent, last_sent_location, next_instant,
           next_anchor_instant, allow_ais_for_location, prev_lat, prev_long,
           fragments, provider, running, pending, lastRead, fresh,
           lastPermit, seen, lastHandoff, emit>>

\* A key is format!("{}-{}", now, key): <<timestamp, sink name>>.  sled
\* orders keys as byte strings: by timestamp, then by sink name.
KeyLess(k1, k2) ==
    \/ k1[1] < k2[1]
    \/ k1[1] = k2[1] /\ SinkRank(k1[2]) < SinkRank(k2[2])

EmptyDb == <<>>

RECURSIVE SortKeys(_)
SortKeys(S) ==
    IF S = {} THEN <<>>
    ELSE Let(CHOOSE x \in S : \A y \in S \ {x} : KeyLess(x, y),
             LAMBDA k : <<k>> \o SortKeys(S \ {k}))

\* an iterator that yields the newest key first
RECURSIVE NewestFirst(_)
NewestFirst(S) ==
    IF S = {} THEN <<>>
    ELSE Let(CHOOSE x \in S : \A y \in S \ {x} : KeyLess(y, x),
             LAMBDA k : <<k>> \o NewestFirst(S \ {k}))
IterNewestFirst(tree) == NewestFirst(DOMAIN tree)

\* Persistence::iter: the keys of the tree in key order
Persistence_iter(tree) == SortKeys(DOMAIN tree)

\* One entry of the history of a worker step.
Event(type, sink, key, value, ok, held) ==
    [type |-> type, sink |-> sink, key |-> key, value |-> value, ok |-> ok,
     held |-> held]

(* The operators below thread a record st through the code of one worker   *)
(* step: db and count are the Persistence, up the sinks' reachability, ok   *)
(* the io::Result of the latest call, log the history, n the number of      *)
(* sends so far, and cut the environment's choice of a send just before     *)
(* which the addressed sink becomes unreachable (0: none).                  *)

Persistence_store(st, key, value) ==
    [st EXCEPT !.db = (key :> value) @@ st.db,
               !.count = IF key \in DOMAIN st.db THEN @ ELSE @ + 1,
               !.log = Append(@, Event("store", key[2], key, value, TRUE,
                                       DOMAIN st.db))]

Persistence_remove(st, key) ==
    IF key \in DOMAIN st.db
    THEN [st EXCEPT !.db = IF DOMAIN st.db = {key} THEN EmptyDb
                           ELSE [k \in DOMAIN st.db \ {key} |-> st.db[k]],
                    !.count = @ - 1,
                    !.log = Append(@, Event("remove", key[2], key, st.db[key],
                                            TRUE, DOMAIN st.db))]
    ELSE st

\* Persistence::clear: self.db.clear()
Persistence_clear(st) ==
    [st EXCEPT !.db = EmptyDb,
               !.log = Append(@, Event("clear", "", <<>>, <<>>, TRUE,
                                       DOMAIN st.db))]

\* send_message to the sink named key; `for_key` is history only: the key
\* the sentence is, or would be, stored under.
send_message(st, nmea_message_bytes, key, for_key) ==
    LET n == st.n + 1
        up1 == IF st.cut = n THEN [st.up EXCEPT ![key] = FALSE] ELSE st.up
        ok == up1[key]
    IN  [st EXCEPT !.n = n, !.up = up1, !.ok = ok,
                   !.log = Append(@, Event("send", key, for_key,
                                           nmea_message_bytes, ok, DOMAIN st.db))]

\* for (key, address) in self.location.iter_mut() { send_message(..)?; }
RECURSIVE SendToAll(_, _, _, _)
SendToAll(st, value, for_key, i) ==
    IF i > Len(location) THEN [st EXCEPT !.ok = TRUE]
    ELSE Let(send_message(st, value, location[i], for_key),
             LAMBDA st1 : IF st1.ok THEN SendToAll(st1, value, for_key, i + 1)
                          ELSE st1)

\* a resend that removes the key before its value has been sent
ResendItemRemoveFirst(st, key) ==
    Let(Persistence_remove(st, key),
        LAMBDA st1 : SendToAll(st1, st.db[key], key, 1))

\* a resend that sends the value to the first sink only
ResendItemFirstSinkOnly(st, key) ==
    Let(IF location = <<>> THEN st
        ELSE send_message(st, st.db[key], location[1], key),
        LAMBDA st1 : IF st1.ok THEN Persistence_remove(st1, key) ELSE st1)

\* a resend that removes the key whether or not every sink took the value
ResendItemRemoveAnyway(st, key) ==
    Let(SendToAll(st, st.db[key], key, 1),
        LAMBDA st1 : [Persistence_remove(st1, key) EXCEPT !.ok = st1.ok])

\* a resend that sends a value only to the sink named in its key
ResendItemOwnSinkOnly(st, key) ==
    Let(send_message(st, st.db[key], key[2], key),
        LAMBDA st1 : IF st1.ok THEN Persistence_remove(st1, key) ELSE st1)

\* the Ok((key, value)) arm of resend_messages
ResendItem(st, key) ==
    Let(SendToAll(st, st.db[key], key, 1),
        LAMBDA st1 : IF st1.ok THEN Persistence_remove(st1, key) ELSE st1)

\* a replay that goes on to the next record after a failed send
RECURSIVE ResendItemsKeepGoing(_, _, _)
ResendItemsKeepGoing(st, keys, bad) ==
    IF keys = <<>> THEN [st EXCEPT !.ok = TRUE]
    ELSE IF Head(keys) \in bad THEN ResendItemsKeepGoing(st, Tail(keys), bad)
    ELSE Let(ResendItem(st, Head(keys)),
             LAMBDA st1 :
                 Let(ResendItemsKeepGoing(st1, Tail(keys), bad),
                     LAMBDA st2 : [st2 EXCEPT !.ok = st1.ok /\ st2.ok]))

\* for item in self.persistence.iter(): `bad` are the entries for which the
\* iterator yields Err
RECURSIVE ResendItems(_, _, _)
ResendItems(st, keys, bad) ==
    IF keys = <<>> THEN [st EXCEPT !.ok = TRUE]
    ELSE IF Head(keys) \in bad THEN ResendItems(st, Tail(keys), bad)
    ELSE Let(ResendItem(st, Head(keys)),
             LAMBDA st1 : IF st1.ok THEN ResendItems(st1, Tail(keys), bad)
                          ELSE st1)

\* the "iter" entry of the history: self.persistence.iter() has been called
Iterating(st) ==
    [st EXCEPT !.log = Append(@, Event("iter", "", <<>>, <<>>, TRUE,
                                       DOMAIN st.db))]

\* a resend that walks the store whatever the count says
ResendWithoutCount(st, bad) ==
    Let(Persistence_iter(st.db),
        LAMBDA keys : ResendItems(Iterating(st), keys, bad))

resend_messages(st, bad) ==
    IF st.count = 0 THEN [st EXCEPT !.ok = TRUE]
    ELSE Let(Persistence_iter(st.db),
             LAMBDA keys : ResendItems(Iterating(st), keys, bad))

\* a handler that only logs a failed send
ParseSinkDropOnError(st, key, nmea_bytes, now, conn_ok) ==
    IF ~conn_ok
    THEN Persistence_store(st, <<now, key>>, nmea_bytes)
    ELSE send_message(st, nmea_bytes, key, <<now, key>>)

\* the body of the loop over the sinks in parse_message
\* a parse_message that tries the sink whatever the flag says
ParseSinkSendAnyway(st, key, nmea_bytes, now, conn_ok) ==
    Let(send_message(st, nmea_bytes, key, <<now, key>>),
        LAMBDA st1 : IF ~st1.ok
                     THEN Persistence_store(st1, <<now, key>>, nmea_bytes)
                     ELSE st1)

ParseSink(st, key, nmea_bytes, now, conn_ok) ==
    IF ~conn_ok
    THEN Persistence_store(st, <<now, key>>, nmea_bytes)
    ELSE Let(send_message(st, nmea_bytes, key, <<now, key>>),
             LAMBDA st1 : IF ~st1.ok
                          THEN Persistence_store(st1, <<now, key>>, nmea_bytes)
                          ELSE st1)

RECURSIVE ParseSinks(_, _, _, _, _)
ParseSinks(st, nmea_bytes, now, conn_ok, i) ==
    IF i > Len(location) THEN st
    ELSE Let(ParseSink(st, location[i], nmea_bytes, now, conn_ok),
             LAMBDA st1 : ParseSinks(st1, nmea_bytes, now, conn_ok, i + 1))

\* parse_message: its io::Result is st.ok
parse_message(st, message, conn_ok, now) ==
    Let(nmea_message(message, now, OwnMmsi),
        LAMBDA nmea :
            IF nmea = None THEN [st EXCEPT !.ok = TRUE]
            ELSE [ParseSinks(st, nmea[1], now, conn_ok, 1) EXCEPT !.ok = TRUE])

-----------------------------------------------------------------------------
(* The Location worker: location_loop, and its environment *)

NoCycle ==
    [ran |-> FALSE, ok |-> TRUE, before |-> EmptyDb, after |-> EmptyDb,
     bad |-> {}]
CycleOf(st0, st1, bad) ==
    [ran |-> TRUE, ok |-> st1.ok, before |-> st0.db, after |-> st1.db,
     bad |-> bad]

\* a step of the environment leaves no history of a worker step
NoHistory ==
    /\ cycle' = NoCycle
    /\ cycleLog' = <<>>
    /\ msgLog' = <<>>
    /\ lastMsg' = None

St(cut) ==
    [db |-> db, count |-> count, up |-> up, log |-> <<>>, ok |-> TRUE,
     n |-> 0, cut |-> cut]

\* the sends one worker step can make, for the choice of `cut`
Cuts == 0 .. (Cardinality(DOMAIN db) + 1) * Len(location)
\* the entries the iterator can fail to read
BadSets ==
    IF count = 0 THEN {{}}
    ELSE {b \in SUBSET DOMAIN db : Cardinality(b) <= MaxReadErrors}

\* The store the worker opens: empty, or holding a record of an earlier run.
InitialStores ==
    {EmptyDb} \cup
    { (<<0, location[1]>> :> nmea_message(m, 0, OwnMmsi)[1]) :
        m \in IF location = <<>> THEN {} ELSE HandoffMessages }

WorkerInit ==
    /\ location \in LocationMaps
    /\ up \in [SinksOf(location) -> BOOLEAN]
    /\ db \in InitialStores
    \* Persistence::new: let count = db.len()
    /\ count = Cardinality(DOMAIN db)
    /\ connection_ok = FALSE
    /\ chan = <<>>
    /\ wpc = "start"
    /\ waited = 0
    /\ keyClock = 0
    /\ cycle = NoCycle
    /\ cycleLog = <<>>
    /\ msgLog = <<>>
    /\ lastMsg = None

\* a loop that passes the error on with `?`
ReturnOnError(ok) == IF ok THEN "loop" ELSE "returned"

\* .is_ok() on the io::Result of resend_messages and of parse_message: the
\* error is dropped and location_loop goes on
Continue(ok) == "loop"

\* let mut connection_ok = self.resend_messages().is_ok();
StartLoop(badsets) ==
    /\ wpc = "start"
    /\ \E bad \in badsets, cut \in Cuts :
       \E st0 \in {St(cut)} :
       \E st1 \in {resend_messages(st0, bad)} :
         /\ db' = st1.db
         /\ count' = st1.count
         /\ up' = st1.up
         /\ connection_ok' = st1.ok
         /\ cycle' = CycleOf(st0, st1, bad)
         /\ cycleLog' = st1.log
         /\ wpc' = Continue(st1.ok)
    /\ waited' = 0
    /\ msgLog' = <<>>
    /\ lastMsg' = None
    /\ UNCHANGED <<location, chan, keyClock>>
    /\ UNCHANGED dvars
    /\ UNCHANGED evars

\* Sender::send on the channel of std::sync::mpsc::channel(): the message is
\* queued behind those already sent and the call returns
channel_send(ch, message) == Append(ch, message)

\* a receive that takes the message sent last
RecvNewest(ch) ==
    [message |-> ch[Len(ch)], rest |-> SubSeq(ch, 1, Len(ch) - 1)]

\* Ok(message) of rx.recv_timeout on a channel that holds messages
recv_timeout(ch) == [message |-> Head(ch), rest |-> Tail(ch)]

\* a loop that replays the store on every arrival
ResendOnEveryArrival(conn_ok) == TRUE

\* if !connection_ok { connection_ok = self.resend_messages().is_ok(); }
ResendOnArrival(conn_ok) == ~conn_ok

\* Ok(message) of rx.recv_timeout.  `now` is the chrono::Utc::now() of
\* parse_message: later than every timestamp in a key, and recorded in
\* keyClock when it becomes part of one.
Received(badsets) ==
    /\ wpc = "loop"
    /\ chan # <<>>
    /\ \E resend \in {ResendOnArrival(connection_ok)} :
       \E bad \in (IF resend THEN badsets ELSE {{}}), cut \in Cuts :
       \E st0 \in {St(cut)} :
       \E st1 \in {IF resend THEN resend_messages(st0, bad) ELSE st0} :
       \E ok1 \in {IF resend THEN st1.ok ELSE connection_ok} :
       \E st1b \in {[st1 EXCEPT !.log = <<>>]} :
       \E st2 \in {parse_message(st1b, recv_timeout(chan).message, ok1, keyClock + 1)} :
       \E stored \in {\E i \in DOMAIN st2.log : st2.log[i].type = "store"} :
         /\ stored => keyClock + 1 <= MaxKey
         /\ db' = st2.db
         /\ count' = st2.count
         /\ up' = st2.up
         /\ connection_ok' = st2.ok
         /\ cycle' = IF resend THEN CycleOf(st0, st1, bad) ELSE NoCycle
         /\ cycleLog' = IF resend THEN st1.log ELSE <<>>
         /\ msgLog' = st2.log
         /\ lastMsg' = Some([message |-> recv_timeout(chan).message, now |-> keyClock + 1,
                             conn_ok |-> ok1, before |-> st1.db])
         /\ keyClock' = IF stored THEN keyClock + 1 ELSE keyClock
         /\ wpc' = Continue(st1.ok /\ st2.ok)
    /\ chan' = recv_timeout(chan).rest
    /\ waited' = 0
    /\ UNCHANGED location
    /\ UNCHANGED dvars
    /\ UNCHANGED evars

\* Err(Timeout) of rx.recv_timeout
TimedOut(badsets) ==
    /\ wpc = "loop"
    /\ chan = <<>>
    /\ waited * TickSecs >= MESSAGE_TIMEOUT
    /\ \E bad \in badsets, cut \in Cuts :
       \E st0 \in {St(cut)} :
       \E st1 \in {resend_messages(st0, bad)} :
         /\ db' = st1.db
         /\ count' = st1.count
         /\ up' = st1.up
         /\ connection_ok' = st1.ok
         /\ cycle' = CycleOf(st0, st1, bad)
         /\ cycleLog' = st1.log
         /\ wpc' = Continue(st1.ok)
    /\ waited' = 0
    /\ msgLog' = <<>>
    /\ lastMsg' = None
    /\ UNCHANGED <<location, chan, keyClock>>
    /\ UNCHANGED dvars
    /\ UNCHANGED evars

\* recv_timeout keeps waiting on an empty channel
WorkerWait ==
    /\ wpc = "loop"
    /\ chan = <<>>
    /\ waited * TickSecs < MESSAGE_TIMEOUT
    /\ waited' = waited + 1
    /\ NoHistory
    /\ UNCHANGED <<location, up, db, count, connection_ok, chan, wpc, keyClock>>
    /\ UNCHANGED dvars
    /\ UNCHANGED evars

\* self.location_tx.send(parsed_message) of the Dispatcher
Handoff ==
    /\ Len(chan) < MaxChan
    \* a recv_timeout that has waited its 60 s returns Timeout first
    /\ (wpc = "loop" /\ chan = <<>>) => waited * TickSecs < MESSAGE_TIMEOUT
    /\ \E m \in HandoffMessages : chan' = channel_send(chan, m)
    /\ NoHistory
    /\ UNCHANGED <<location, up, db, count, connection_ok, wpc, waited, keyClock>>
    /\ UNCHANGED dvars
    /\ UNCHANGED evars

\* a Location sink becomes unreachable, or reachable again
SinkDown ==
    /\ \E s \in SinksOf(location) : up[s] /\ up' = [up EXCEPT ![s] = FALSE]
    /\ NoHistory
    /\ UNCHANGED <<location, db, count, connection_ok, chan, wpc, waited,
                   keyClock>>
    /\ UNCHANGED dvars
    /\ UNCHANGED evars

SinkUp ==
    /\ \E s \in SinksOf(location) : ~up[s] /\ up' = [up EXCEPT ![s] = TRUE]
    /\ NoHistory
    /\ UNCHANGED <<location, db, count, connection_ok, chan, wpc, waited,
                   keyClock>>
    /\ UNCHANGED dvars
    /\ UNCHANGED evars

-----------------------------------------------------------------------------
(* The Dispatcher (main thread) *)

\* What nmea_parser yields for a line.  One vessel, seen in VDM (own_vessel
\* false) and in VDO (own_vessel true) sentences.
VSD(mmsi, own) ==
    [kind |-> "VesselStaticData", mmsi |-> mmsi, own_vessel |-> own]
\* (latitude, longitude) pairs, in thousandths of a degree
Positions == {<<None, None>>, <<Some(1), Some(0)>>, <<Some(3), Some(0)>>,
              <<Some(0), Some(3)>>}
ParsedMessages ==
    {VDD(OwnMmsi, TRUE, p[1], p[2]) : p \in Positions}
    \cup {VDD(OwnMmsi, FALSE, Some(3), Some(0))}
    \cup {VSD(OwnMmsi, own) : own \in BOOLEAN}
    \cup {RMC(None, p[1], p[2], None, None) : p \in Positions}
    \cup {[kind |-> "Incomplete"], [kind |-> "Other"], [kind |-> "Err"]}

\* Instant::duration_since(..).as_secs(): zero when `earlier` is later
duration_since(t, earlier) == IF t >= earlier THEN t - earlier ELSE 0

next_location_instant(lsl, t) ==
    LET elapsed == duration_since(t, lsl)
        wait_period == IF elapsed < location_interval
                       THEN location_interval - elapsed ELSE 0
    IN  t + wait_period

next_location_anchor_instant(lsl, t) ==
    LET elapsed == duration_since(t, lsl)
        wait_period == IF elapsed < location_anchor_interval
                       THEN location_anchor_interval - elapsed ELSE 0
    IN  t + wait_period

is_moving(lat, long, p_lat, p_long) ==
    /\ IsSome(lat)
    /\ IsSome(long)
    /\ \/ Abs(lat[1] - p_lat) > MovingThreshold
       \/ Abs(long[1] - p_long) > MovingThreshold

FieldOf(message) ==
    IF message.kind = "VesselDynamicData" THEN "vessel_dynamic_data"
    ELSE "vessel_static_data"

IntervalOf(data) == IF data.own_vessel THEN location_interval ELSE interval

\* a check_last_sent that permits the messages it keeps no row for
CheckLastSentPermitOthers(table, message, t) ==
    IF message.kind \in {"VesselDynamicData", "VesselStaticData"}
    THEN LET iv == IntervalOf(message)
             row == IF message.mmsi \in DOMAIN table THEN table[message.mmsi]
                    ELSE [vessel_dynamic_data |-> t - iv,
                          vessel_static_data |-> t - iv]
             pass == duration_since(t, row[FieldOf(message)]) >= iv
             row1 == IF pass THEN [row EXCEPT ![FieldOf(message)] = t] ELSE row
         IN  [permit |-> pass, last_sent |-> (message.mmsi :> row1) @@ table]
    ELSE [permit |-> TRUE, last_sent |-> table]

\* Dispatcher::check_last_sent: [permit, last_sent]
check_last_sent(table, message, t) ==
    IF message.kind \in {"VesselDynamicData", "VesselStaticData"}
    THEN LET iv == IntervalOf(message)
             elapsed == t - iv
             row == IF message.mmsi \in DOMAIN table THEN table[message.mmsi]
                    ELSE [vessel_dynamic_data |-> elapsed,
                          vessel_static_data |-> elapsed]
             pass == duration_since(t, row[FieldOf(message)]) >= iv
             row1 == IF pass THEN [row EXCEPT ![FieldOf(message)] = t] ELSE row
         IN  [permit |-> pass, last_sent |-> (message.mmsi :> row1) @@ table]
    ELSE [permit |-> FALSE, last_sent |-> table]

\* a match that takes the dynamic data of every vessel for a position of
\* the own vessel
ClassifyAllVessels(message, allow) ==
    IF message.kind = "VesselDynamicData"
    THEN [own_vessel |-> Some(allow),
          lat |-> message.latitude, long |-> message.longitude]
    ELSE IF message.kind = "VesselStaticData"
    THEN [own_vessel |-> Some(FALSE), lat |-> None, long |-> None]
    ELSE IF message.kind = "Rmc"
    THEN [own_vessel |-> Some(TRUE),
          lat |-> message.latitude, long |-> message.longitude]
    ELSE [own_vessel |-> None, lat |-> None, long |-> None]

\* the match of work on the parsed message: (own_vessel, lat, long)
Classify(message, allow) ==
    IF message.kind = "VesselDynamicData"
    THEN [own_vessel |-> Some(allow /\ message.own_vessel),
          lat |-> message.latitude, long |-> message.longitude]
    ELSE IF message.kind = "VesselStaticData"
    THEN [own_vessel |-> Some(FALSE), lat |-> None, long |-> None]
    ELSE IF message.kind = "Rmc"
    THEN [own_vessel |-> Some(TRUE),
          lat |-> message.latitude, long |-> message.longitude]
    ELSE [own_vessel |-> None, lat |-> None, long |-> None]

\* the test of work without its anchor deadline
LocationDueWhenMoving(t, lat, long) ==
    t >= next_instant /\ is_moving(lat, long, prev_lat, prev_long)

\* the test of work that fires a location handoff
LocationDue(t, lat, long) ==
    \/ t >= next_anchor_instant
    \/ t >= next_instant /\ is_moving(lat, long, prev_lat, prev_long)

NoEmit == None

\* a message without its position
Heading(message) ==
    IF message.kind \in {"VesselDynamicData", "VesselStaticData"}
    THEN [kind |-> message.kind, mmsi |-> message.mmsi,
          own_vessel |-> message.own_vessel]
    ELSE [kind |-> message.kind]

\* A line of the provider as message.lines() yields it: its text, what
\* parse_sentence makes of it, and the lines of the same message that the
\* provider sent before it (None for a line that belongs to no message).
Line(raw, after, parsed) == [raw |-> raw, after |-> after, parsed |-> parsed]

\* messages of one sentence each
Sentences ==
    {Line("sentence", Some(<<>>), m) :
        m \in ParsedMessages \ {[kind |-> "Incomplete"]}}

\* A VesselStaticData in two sentences S1 S2, a message of another type in
\* two sentences B1 B2, a VesselDynamicData in one sentence D1, and a line X
\* that does not parse.
FragmentLines ==
    {Line("S1", Some(<<>>), [kind |-> "Incomplete"]),
     Line("S2", Some(<<"S1">>), VSD(OwnMmsi, FALSE)),
     Line("B1", Some(<<>>), [kind |-> "Incomplete"]),
     Line("B2", Some(<<"B1">>), [kind |-> "Other"]),
     Line("D1", Some(<<>>), VDD(OwnMmsi, FALSE, Some(3), Some(0))),
     Line("X", None, [kind |-> "Err"])}

\* fragments.join("")
Join(lines) == lines

\* Dispatcher::new and the head of Dispatcher::work, at time t
NewDispatcher(t) ==
    /\ last_sent' = <<>>
    /\ last_sent_location' = t - location_interval
    /\ allow_ais_for_location' = TRUE
    /\ prev_lat' = 0
    /\ prev_long' = 0
    /\ next_instant' = next_location_instant(t - location_interval, t)
    /\ next_anchor_instant' = next_location_anchor_instant(t - location_interval, t)
    /\ fragments' = <<>>
    /\ provider' = "none"

DispatcherInit ==
    /\ clock = 0
    /\ last_sent = <<>>
    /\ last_sent_location = 0 - location_interval
    /\ allow_ais_for_location = TRUE
    /\ prev_lat = 0
    /\ prev_long = 0
    /\ next_instant = next_location_instant(0 - location_interval, 0)
    /\ next_anchor_instant = next_location_anchor_instant(0 - location_interval, 0)
    /\ fragments = <<>>
    /\ provider = "none"
    /\ running = TRUE
    /\ pending = <<>>
    /\ lastRead = "none"
    /\ fresh = TRUE
    /\ lastPermit = [f \in {"vessel_dynamic_data", "vessel_static_data"} |-> None]
    /\ seen = {}
    /\ lastHandoff = None
    /\ emit = NoEmit

\* work has returned Err: the loop of main logs it, sleeps a second and goes
\* round
CanRebuild == clock + RestartSleep <= MaxTime

\* The head of the loop of main parses the provider and the AIS addresses
\* again, and calls exit(1) when one does not resolve; otherwise it builds a
\* new Dispatcher and calls its work.
Rebuild(resolved) ==
    /\ clock' = clock + RestartSleep
    /\ running' = resolved
    /\ IF resolved
       THEN NewDispatcher(clock + RestartSleep)
       ELSE UNCHANGED <<last_sent, last_sent_location, allow_ais_for_location,
                        prev_lat, prev_long, next_instant, next_anchor_instant,
                        fragments, provider>>

\* The [ais] section: the names of the AIS sinks, in the order iter_mut()
\* yields them
AisSinks == <<"x", "y">>

\* a broadcast_ais that goes on to the next sink after a failed send and
\* returns Ok
BroadcastKeepGoing(fail_at) ==
    [ok |-> TRUE, sent |-> [i \in DOMAIN AisSinks |-> i # fail_at]]

\* broadcast_ais, when the send to sink number fail_at fails (0: none does):
\* its result, and the outcome of each send_message it has called
broadcast_ais(fail_at) ==
    IF fail_at = 0
    THEN [ok |-> TRUE, sent |-> [i \in DOMAIN AisSinks |-> TRUE]]
    ELSE [ok |-> FALSE, sent |-> [i \in 1 .. fail_at |-> i < fail_at]]

\* read_from_provider finds a stream to read from: the one it holds, or a
\* new connection when it holds none or when retain has dropped the closed one
Readable(pruned) == provider # "eof" \/ pruned

\* One line of the provider goes through the loop body of work.  fail_at:
\* the AIS sink whose send fails, if broadcast_ais is called; its Err leaves
\* work.
ProcessLine(inputs, resolves) ==
    /\ running
    /\ \E input \in inputs,
          pruned \in (IF provider = "eof" THEN BOOLEAN ELSE {FALSE}) :
       \E message \in {input.parsed} :
       \E c \in {Classify(message, allow_ais_for_location)} :
       \E r \in {check_last_sent(last_sent, message, clock)} :
       \E is_msg \in {IsSome(c.own_vessel)} :
       \E fail_at \in (IF is_msg /\ r.permit THEN 0 .. Len(AisSinks) ELSE {0}) :
       \E b \in {broadcast_ais(fail_at)} :
       \E ais_ok \in {b.ok} :
       \E failed \in {is_msg /\ r.permit /\ ~ais_ok} :
       \E resolved \in (IF failed THEN resolves ELSE {TRUE}) :
       \E fire \in {/\ is_msg /\ ~failed /\ c.own_vessel[1]
                    /\ LocationDue(clock, c.lat, c.long)} :
       \* location_tx.send(..).unwrap() with the Receiver dropped
       \E panics \in {fire /\ wpc \in {"panicked", "returned"}} :
       \E handed \in {fire /\ ~panics} :
         /\ Readable(pruned)
         /\ IsSome(input.after) => input.after[1] = pending
         /\ message.kind = "Incomplete" => Len(fragments) < MaxFragments
         /\ failed => CanRebuild
         /\ IF failed
            THEN Rebuild(resolved)
            ELSE /\ allow_ais_for_location' =
                        IF message.kind = "Rmc" THEN FALSE
                        ELSE allow_ais_for_location
                 /\ last_sent' = IF is_msg THEN r.last_sent ELSE last_sent
                 /\ prev_lat' = IF fire THEN unwrap_or(c.lat, 0) ELSE prev_lat
                 /\ prev_long' = IF fire THEN unwrap_or(c.long, 0) ELSE prev_long
                 /\ last_sent_location' = IF fire THEN clock ELSE last_sent_location
                 /\ next_instant' =
                        IF handed THEN next_location_instant(clock, clock)
                        ELSE next_instant
                 /\ next_anchor_instant' =
                        IF handed THEN next_location_anchor_instant(clock, clock)
                        ELSE next_anchor_instant
                 /\ fragments' =
                        IF message.kind = "Incomplete" \/ panics
                        THEN Append(fragments, input.raw)
                        ELSE IF is_msg \/ message.kind = "Err" THEN <<>>
                        ELSE fragments
                 /\ provider' = "open"
                 /\ running' = ~panics
                 /\ UNCHANGED clock
         /\ pending' = IF message.kind = "Incomplete" /\ IsSome(input.after)
                       THEN Append(pending, input.raw) ELSE <<>>
         /\ lastRead' = "line"
         /\ fresh' = IF failed THEN TRUE
                     ELSE IF is_msg /\ c.own_vessel[1] /\ IsSome(c.lat)
                             /\ IsSome(c.long)
                     THEN FALSE
                     ELSE fresh
         /\ lastPermit' = IF is_msg /\ r.permit
                          THEN [lastPermit EXCEPT ![FieldOf(message)] = Some(clock)]
                          ELSE lastPermit
         /\ seen' = IF is_msg /\ message.kind # "Rmc"
                    THEN seen \cup {FieldOf(message)}
                    ELSE IF is_msg /\ ~failed THEN seen \cup {"rmc"}
                    ELSE seen
         /\ lastHandoff' = IF handed
                           THEN Some([time |-> clock, lat |-> unwrap_or(c.lat, 0),
                                      long |-> unwrap_or(c.long, 0)])
                           ELSE lastHandoff
         /\ emit' = Some([message |-> Heading(message),
                          checked |-> is_msg /\ message.kind # "Rmc",
                          permit |-> is_msg /\ r.permit,
                          first |-> /\ is_msg /\ message.kind # "Rmc"
                                    /\ FieldOf(message) \notin seen,
                          eligible |-> is_msg /\ c.own_vessel[1],
                          failed |-> failed,
                          ais |-> IF is_msg /\ r.permit THEN b.sent ELSE <<>>,
                          handed |-> handed,
                          panicked |-> panics,
                          moving |-> is_moving(c.lat, c.long, prev_lat, prev_long),
                          again |-> IsSome(lastHandoff),
                          position |-> IsSome(c.lat) /\ IsSome(c.long),
                          initial |-> /\ fresh /\ is_msg /\ ~failed
                                      /\ c.own_vessel[1]
                                      /\ IsSome(c.lat) /\ IsSome(c.long),
                          payload |-> IF is_msg /\ r.permit
                                      THEN Some(Join(Append(fragments, input.raw)))
                                      ELSE None,
                          lines |-> Append(pending, input.raw)])
    /\ UNCHANGED wvars
    /\ UNCHANGED evars

\* read_from_provider returns Err (the connect or the read fails), and work
\* returns it
ProviderError(resolves) ==
    /\ running
    /\ CanRebuild
    /\ \E resolved \in resolves : Rebuild(resolved)
    /\ pending' = <<>>
    /\ lastRead' = "error"
    /\ fresh' = TRUE
    /\ emit' = NoEmit
    /\ UNCHANGED <<lastPermit, seen, lastHandoff>>
    /\ UNCHANGED wvars
    /\ UNCHANGED evars

\* the provider closes the connection
ProviderClose ==
    /\ running
    /\ provider = "open"
    /\ provider' = "eof"
    /\ pending' = <<>>
    /\ lastRead' = "none"
    /\ emit' = NoEmit
    /\ UNCHANGED <<clock, last_sent, last_sent_location, next_instant,
                   next_anchor_instant, allow_ais_for_location, prev_lat,
                   prev_long, fragments, running, fresh, lastPermit, seen,
                   lastHandoff>>
    /\ UNCHANGED wvars
    /\ UNCHANGED evars

\* read_message_tcp reads no bytes from the closed connection and returns
\* Ok of the empty string: message.lines() is empty and work reads again
ReadEof ==
    /\ running
    /\ provider = "eof"
    /\ lastRead' = "eof"
    /\ emit' = NoEmit
    /\ UNCHANGED <<clock, last_sent, last_sent_location, next_instant,
                   next_anchor_instant, allow_ais_for_location, prev_lat,
                   prev_long, fragments, provider, running, pending,
                   fresh, lastPermit, seen, lastHandoff>>
    /\ UNCHANGED wvars
    /\ UNCHANGED evars

\* a second passes
Tick ==
    /\ running
    /\ clock < MaxTime
    /\ clock' = clock + 1
    /\ emit' = NoEmit
    /\ lastRead' = "none"
    /\ UNCHANGED <<last_sent, last_sent_location, next_instant,
                   next_anchor_instant, allow_ais_for_location, prev_lat,
                   prev_long, fragments, provider, running, pending,
                   fresh, lastPermit, seen, lastHandoff>>
    /\ UNCHANGED wvars
    /\ UNCHANGED evars

\* The main thread with numeric addresses, a provider that stays connected
\* and messages of one sentence each
\* The Location worker thread ends in a panic: the expect of Persistence::new
\* or the unwrap of store or flush meets an error of the file system or of
\* sled.  Its Receiver is dropped with it.
WorkerPanic ==
    /\ wpc \in {"start", "loop"}
    /\ wpc' = "panicked"
    /\ NoHistory
    /\ emit' = NoEmit
    /\ lastRead' = "none"
    /\ UNCHANGED <<location, up, db, count, connection_ok, chan, waited,
                   keyClock>>
    /\ UNCHANGED <<clock, last_sent, last_sent_location, next_instant,
                   next_anchor_instant, allow_ais_for_location, prev_lat,
                   prev_long, fragments, provider, running, pending,
                   fresh, lastPermit, seen, lastHandoff>>
    /\ UNCHANGED evars

\* Sentences of the own vessel and of another one
OwnSentences ==
    {Line("sentence", Some(<<>>), m) :
        m \in {VDD(OwnMmsi, TRUE, Some(3), Some(0)),
               VDD(OwnMmsi, FALSE, Some(3), Some(0)),
               VSD(OwnMmsi, FALSE)}}

HandoffLine == ProcessLine(OwnSentences, {TRUE})

DispatcherLine == ProcessLine(Sentences, {TRUE})
DispatcherError == ProviderError({TRUE})

\* The main thread with addresses that may fail to resolve and messages of
\* several sentences
StreamLine == ProcessLine(FragmentLines, BOOLEAN)
StreamError == ProviderError(BOOLEAN)

-----------------------------------------------------------------------------
(* send_message on a tcp-connect endpoint *)

NoCall == None

\* NetworkEndpoint::from_str: tcp_stream: Vec::new()
EndpointInit ==
    /\ tcp_listener = FALSE
    /\ udp_socket = FALSE
    /\ tcp_stream = <<>>
    /\ sockets = 0
    /\ gone = {}
    /\ failed_sockets = {}
    /\ call = NoCall

\* address.tcp_stream.retain(|writer| !writer.peer_addr().is_err()), where
\* peer_addr fails on the sockets in `unconnected`
Retain(streams, unconnected) ==
    SelectSeq(streams, LAMBDA w : w \notin unconnected)

\* the same without address.tcp_stream.clear()
WriteFirstKeepStream(streams, connected, write_ok) ==
    /\ tcp_stream' = streams
    /\ failed_sockets' = IF write_ok THEN failed_sockets
                         ELSE failed_sockets \cup {streams[1]}
    /\ call' = Some([connect |-> connected, wrote |-> Some(streams[1]),
                     rewrote |-> streams[1] \in failed_sockets,
                     ok |-> write_ok,
                     after_failure |-> call # NoCall /\ ~call[1].ok])

\* What send_message does after the connection step with the streams it then
\* holds: a write that fails clears the stream list.
WriteFirst(streams, connected, write_ok) ==
    /\ tcp_stream' = IF write_ok THEN streams ELSE <<>>
    /\ failed_sockets' = IF write_ok THEN failed_sockets
                         ELSE failed_sockets \cup {streams[1]}
    /\ call' = Some([connect |-> connected, wrote |-> Some(streams[1]),
                     rewrote |-> streams[1] \in failed_sockets,
                     ok |-> write_ok,
                     after_failure |-> call # NoCall /\ ~call[1].ok])

\* a send_message that connects on every call
AlwaysConnect(kept) == TRUE

\* if address.tcp_stream.len() == 0
MustConnect(kept) == Len(kept) = 0

\* a send_message that takes a tcp-listen endpoint for a tcp one
ArmListenAsTcp(p) ==
    IF p \in {"tcp", "tcp-listen"} THEN "tcp"
    ELSE IF p = "udp" THEN "udp"
    ELSE "none"

\* match address.protocol in send_message: the arm that runs
Arm(p) ==
    IF p = "tcp" THEN "tcp"
    ELSE IF p = "udp" THEN "udp"
    ELSE "none"

\* One call of send_message with Protocol::TCP.  The environment decides
\* which held sockets peer_addr fails on, and whether connect, the keepalive
\* setup and the write succeed.
SendMessageTcp ==
    /\ Arm(protocol) = "tcp"
    /\ \E unconnected \in SUBSET gone :
       \E kept \in {Retain(tcp_stream, unconnected)} :
         IF MustConnect(kept)
         THEN /\ sockets < MaxSockets
              /\ \E outcome \in {"connect_err", "keepalive_err", "connected"},
                    write_ok \in BOOLEAN :
                   IF outcome = "connect_err"
                   THEN /\ tcp_stream' = kept
                        /\ call' = Some([connect |-> TRUE, wrote |-> None,
                                         rewrote |-> FALSE,
                                         ok |-> FALSE,
                                         after_failure |->
                                             call # NoCall /\ ~call[1].ok])
                        /\ UNCHANGED <<sockets, failed_sockets>>
                   ELSE IF outcome = "keepalive_err"
                   THEN /\ tcp_stream' = kept
                        /\ sockets' = sockets + 1
                        /\ failed_sockets' = failed_sockets \cup {sockets + 1}
                        /\ call' = Some([connect |-> TRUE, wrote |-> None,
                                         rewrote |-> FALSE,
                                         ok |-> FALSE,
                                         after_failure |->
                                             call # NoCall /\ ~call[1].ok])
                   ELSE /\ sockets' = sockets + 1
                        /\ WriteFirst(Append(kept, sockets + 1), TRUE, write_ok)
         ELSE /\ \E write_ok \in BOOLEAN : WriteFirst(kept, FALSE, write_ok)
              /\ UNCHANGED sockets
    /\ UNCHANGED <<protocol, tcp_listener, udp_socket, gone>>
    /\ UNCHANGED wvars
    /\ UNCHANGED dvars

\* One call of send_message with Protocol::UDP: the socket is bound and
\* connected on the first call and kept, also when a send fails.
SendMessageUdp ==
    /\ Arm(protocol) = "udp"
    /\ \E bind_ok \in BOOLEAN, connect_ok \in BOOLEAN, send_ok \in BOOLEAN :
       \E opened \in {~udp_socket /\ bind_ok /\ connect_ok} :
       \E sent \in {udp_socket \/ opened} :
         /\ udp_socket' = sent
         /\ call' = Some([connect |-> ~udp_socket, wrote |-> None,
                          rewrote |-> FALSE,
                          ok |-> sent /\ send_ok,
                          after_failure |-> call # NoCall /\ ~call[1].ok])
    /\ UNCHANGED <<protocol, tcp_listener, tcp_stream, sockets, gone,
                   failed_sockets>>
    /\ UNCHANGED wvars
    /\ UNCHANGED dvars

\* One call of send_message with Protocol::TCPListen or Protocol::UDPListen:
\* the arm is empty and the function returns Ok(())
SendMessageListen ==
    /\ Arm(protocol) = "none"
    /\ call' = Some([connect |-> FALSE, wrote |-> None, rewrote |-> FALSE,
                     ok |-> TRUE,
                     after_failure |-> call # NoCall /\ ~call[1].ok])
    /\ UNCHANGED <<protocol, tcp_listener, udp_socket, tcp_stream, sockets,
                   gone, failed_sockets>>
    /\ UNCHANGED wvars
    /\ UNCHANGED dvars

\* the peer of a socket the endpoint holds closes or resets the connection
PeerGone ==
    /\ \E w \in {tcp_stream[i] : i \in DOMAIN tcp_stream} \ gone :
         gone' = gone \cup {w}
    /\ UNCHANGED <<protocol, tcp_listener, udp_socket, tcp_stream, sockets,
                   failed_sockets, call>>
    /\ UNCHANGED wvars
    /\ UNCHANGED dvars

-----------------------------------------------------------------------------
(* The Persistence on its own: calls of store, remove and clear *)

\* the keys and values of the calls
StoreKeys == (0 .. MaxKey) \X SinksOf(location)
StoreValues == {nmea_message(m, 0, OwnMmsi)[1] : m \in HandoffMessages}

\* the Persistence after a call that has left it as st
Called(st) ==
    /\ db' = st.db
    /\ count' = st.count
    /\ msgLog' = st.log

PersistenceStore ==
    /\ count < MaxCount
    /\ \E key \in StoreKeys, value \in StoreValues :
          Called(Persistence_store(St(0), key, value))
    /\ cycle' = NoCycle
    /\ cycleLog' = <<>>
    /\ lastMsg' = None
    /\ UNCHANGED <<location, up, connection_ok, chan, wpc, waited, keyClock>>
    /\ UNCHANGED dvars
    /\ UNCHANGED evars

PersistenceRemove ==
    /\ \E key \in StoreKeys : Called(Persistence_remove(St(0), key))
    /\ cycle' = NoCycle
    /\ cycleLog' = <<>>
    /\ lastMsg' = None
    /\ UNCHANGED <<location, up, connection_ok, chan, wpc, waited, keyClock>>
    /\ UNCHANGED dvars
    /\ UNCHANGED evars

PersistenceClear ==
    /\ Called(Persistence_clear(St(0)))
    /\ cycle' = NoCycle
    /\ cycleLog' = <<>>
    /\ lastMsg' = None
    /\ UNCHANGED <<location, up, connection_ok, chan, wpc, waited, keyClock>>
    /\ UNCHANGED dvars
    /\ UNCHANGED evars

\* The three arms of location_loop, with a store whose iterator may fail
WorkerStart == StartLoop(BadSets)
WorkerReceive == Received(BadSets)
WorkerTimeout == TimedOut(BadSets)

\* and with a store whose iterator never fails to read
ReadableStart == StartLoop({{}})
ReadableReceive == Received({{}})
ReadableTimeout == TimedOut({{}})

vars == <<wvars, dvars, evars>>

\* Protocol::from_str
Protocols == {"tcp", "udp", "tcp-listen", "udp-listen"}

Init == WorkerInit /\ DispatcherInit /\ EndpointInit /\ protocol = "tcp"

WorkerStep == WorkerStart \/ WorkerReceive \/ WorkerTimeout

\* The location thread with its sinks and its channel.  Handoff stands for
\* the main thread here: a location message may be sent at any moment.
Next ==
    \/ WorkerStart
    \/ WorkerReceive
    \/ WorkerTimeout
    \/ WorkerWait
    \/ Handoff
    \/ SinkDown
    \/ SinkUp

Spec == Init /\ [][Next]_vars

\* The main thread on its own: the worker has yet to start, with one
\* Location sink and an empty store.
DispatcherNext ==
    \/ DispatcherLine
    \/ DispatcherError
    \/ Tick

DispatcherStart ==
    /\ Init
    /\ location = <<"a">>
    /\ up = [s \in {"a"} |-> TRUE]
    /\ db = EmptyDb

DispatcherSpec == DispatcherStart /\ [][DispatcherNext]_vars

\* The main thread and its provider: messages of several sentences, a
\* provider that closes the connection, addresses that may not resolve.
StreamNext ==
    \/ StreamLine
    \/ StreamError
    \/ ProviderClose
    \/ ReadEof

StreamSpec == DispatcherStart /\ [][StreamNext]_vars

-----------------------------------------------------------------------------
(* Reading from a tcp-listen endpoint *)

\* what read_message_tcp gives on a nonblocking stream: a line, Ok(""),
\* Err(WouldBlock) or another Err
Outcomes == {"line", "empty", "wouldblock", "error"}

\* Vec::remove(i): the later elements move down by one
Remove(streams, i) ==
    SubSeq(streams, 1, i - 1) \o SubSeq(streams, i + 1, Len(streams))

\* what the accept loop adds to the stream list
Accepted(accept) ==
    IF accept = "one" THEN Append(tcp_stream, sockets + 1) ELSE tcp_stream

\* The while loop of read_to_string over self.tcp_stream, from index i (from
\* 1 here): the list it leaves, how it ends ("line": return Ok(message),
\* "err": return Err(e), "none": the loop runs out), and the streams it has
\* called read_message_tcp on, in order.
RECURSIVE ReadStreams(_, _, _, _)
ReadStreams(streams, outcome, i, read) ==
    IF i > Len(streams)
    THEN [streams |-> streams, result |-> "none", read |-> read]
    ELSE LET w == streams[i]
             read1 == Append(read, w)
         IN  IF outcome[w] = "line"
             THEN [streams |-> streams, result |-> "line", read |-> read1]
             ELSE IF outcome[w] = "empty"
             \* self.tcp_stream.remove(i); continue;
             THEN ReadStreams(Remove(streams, i), outcome, i, read1)
             ELSE IF outcome[w] = "wouldblock"
             THEN ReadStreams(streams, outcome, i + 1, read1)
             \* self.tcp_stream.remove(i); then i += 1 at the foot of the loop
             ELSE IF Remove(streams, i) = <<>>
             THEN [streams |-> <<>>, result |-> "err", read |-> read1]
             ELSE ReadStreams(Remove(streams, i), outcome, i + 1, read1)

\* The for loop of read_from_provider over provider.tcp_stream: it returns
\* the first nonempty line and passes over every other outcome.
RECURSIVE ScanStreams(_, _, _, _)
ScanStreams(streams, outcome, i, read) ==
    IF i > Len(streams)
    THEN [streams |-> streams, result |-> "none", read |-> read]
    ELSE IF outcome[streams[i]] = "line"
    THEN [streams |-> streams, result |-> "line",
          read |-> Append(read, streams[i])]
    ELSE ScanStreams(streams, outcome, i + 1, Append(read, streams[i]))

\* the outcomes the environment can give one call: whether bind succeeds
\* when there is no listener yet, and what accept returns before WouldBlock
Binds == IF tcp_listener THEN {TRUE} ELSE BOOLEAN
Accepts(bind_ok) ==
    IF ~bind_ok THEN {"none"}
    ELSE {"none", "error"}
         \cup (IF sockets < MaxSockets /\ Len(tcp_stream) < MaxStreams
               THEN {"one"} ELSE {})

\* the record of one read call on a listening endpoint
ReadCall(opened, before, outcome, r) ==
    Some([opened |-> opened,
          before |-> before,
          outcome |-> outcome,
          read |-> r.read,
          ok |-> opened /\ r.result = "line",
          idle |-> opened /\ \A i \in DOMAIN before :
                                  outcome[before[i]] = "wouldblock"])

\* One call of NetworkEndpoint::read_to_string with Protocol::TCPListen
ReadToString ==
    /\ protocol = "tcp-listen"
    /\ \E bind_ok \in Binds, unconnected \in SUBSET gone :
       \E accept \in Accepts(bind_ok) :
       \E opened \in {bind_ok /\ accept # "error"} :
       \E kept \in {IF opened THEN Retain(Accepted(accept), unconnected)
                    ELSE tcp_stream} :
       \E outcome \in (IF opened
                       THEN [{kept[i] : i \in DOMAIN kept} -> Outcomes]
                       ELSE {<<>>}) :
       \E r \in {IF opened THEN ReadStreams(kept, outcome, 1, <<>>)
                 ELSE [streams |-> kept, result |-> "err", read |-> <<>>]} :
         /\ tcp_listener' = bind_ok
         /\ sockets' = IF accept = "one" THEN sockets + 1 ELSE sockets
         /\ tcp_stream' = r.streams
         /\ call' = ReadCall(opened, kept, outcome, r)
    /\ UNCHANGED <<protocol, udp_socket, gone, failed_sockets>>
    /\ UNCHANGED wvars
    /\ UNCHANGED dvars

\* One call of read_from_provider with Protocol::TCPListen, with what work
\* and main do with its Err: work returns it, main sleeps and builds a new
\* Dispatcher around a provider endpoint parsed anew, and the old endpoint is
\* dropped with its listener and its streams.
ReadFromProvider ==
    /\ running
    /\ protocol = "tcp-listen"
    /\ \E bind_ok \in Binds, unconnected \in SUBSET gone :
       \E accept \in Accepts(bind_ok) :
       \E opened \in {bind_ok /\ accept # "error"} :
       \E kept \in {IF opened THEN Retain(Accepted(accept), unconnected)
                    ELSE tcp_stream} :
       \E outcome \in (IF opened
                       THEN [{kept[i] : i \in DOMAIN kept} -> Outcomes]
                       ELSE {<<>>}) :
       \E r \in {IF opened THEN ScanStreams(kept, outcome, 1, <<>>)
                 ELSE [streams |-> kept, result |-> "err", read |-> <<>>]} :
         /\ sockets' = IF accept = "one" THEN sockets + 1 ELSE sockets
         /\ call' = ReadCall(opened, kept, outcome, r)
         /\ IF opened /\ r.result = "line"
            THEN /\ tcp_listener' = TRUE
                 /\ tcp_stream' = kept
                 /\ lastRead' = "line"
                 /\ UNCHANGED <<clock, last_sent, last_sent_location,
                                next_instant, next_anchor_instant,
                                allow_ais_for_location, prev_lat, prev_long,
                                fragments, provider, running, pending, fresh>>
            ELSE /\ CanRebuild
                 /\ Rebuild(TRUE)
                 /\ tcp_listener' = FALSE
                 /\ tcp_stream' = <<>>
                 /\ lastRead' = "error"
                 /\ pending' = <<>>
                 /\ fresh' = TRUE
    /\ emit' = NoEmit
    /\ UNCHANGED <<lastPermit, seen, lastHandoff>>
    /\ UNCHANGED <<protocol, udp_socket, gone, failed_sockets>>
    /\ UNCHANGED wvars

\* the peer of a stream the listening endpoint holds closes the connection
ListenPeerGone ==
    /\ \E w \in {tcp_stream[i] : i \in DOMAIN tcp_stream} \ gone :
         gone' = gone \cup {w}
    /\ call' = NoCall
    /\ UNCHANGED <<protocol, tcp_listener, udp_socket, tcp_stream, sockets,
                   failed_sockets>>
    /\ UNCHANGED wvars
    /\ UNCHANGED dvars

ListenStart ==
    /\ WorkerInit /\ DispatcherInit /\ EndpointInit
    /\ protocol = "tcp-listen"
    /\ location = <<"a">>
    /\ up = [s \in {"a"} |-> TRUE]
    /\ db = EmptyDb

\* A tcp-listen endpoint and the calls of read_to_string on it
ListenNext ==
    \/ ReadToString
    \/ ListenPeerGone

ListenSpec == ListenStart /\ [][ListenNext]_vars

\* The main thread with a tcp-listen provider
ProviderListenNext ==
    \/ ReadFromProvider
    \/ ListenPeerGone
    \/ Tick

ProviderListenSpec == ListenStart /\ [][ProviderListenNext]_vars

\* The main thread beside a Location worker thread that can die
HandoffNext ==
    \/ HandoffLine
    \/ WorkerPanic
    \/ Tick

HandoffSpec == DispatcherStart /\ [][HandoffNext]_vars

\* One sink of any protocol and the calls of send_message on it
EndpointNext ==
    \/ SendMessageTcp
    \/ SendMessageUdp
    \/ SendMessageListen
    \/ PeerGone

EndpointStart ==
    /\ WorkerInit /\ DispatcherInit /\ EndpointInit
    /\ protocol \in Protocols
    /\ location = <<"a">>
    /\ up = [s \in {"a"} |-> TRUE]
    /\ db = EmptyDb

EndpointSpec == EndpointStart /\ [][EndpointNext]_vars

\* The messages parse_message can be given: every combination of present
\* and absent fields of the two variants it formats, and one of another
\* variant.
Latitudes == {None, Some(53170), Some(-5420)}
LocationMessages ==
    {VDD(OwnMmsi, TRUE, lat, long) : lat \in Latitudes, long \in Latitudes}
    \cup {RMC(ts, lat, long, sog, cog) :
            ts \in {None, Some(2)}, lat \in Latitudes, long \in Latitudes,
            sog \in {None, Some(51)}, cog \in {None, Some(900)}}
    \cup {VSD(OwnMmsi, TRUE)}

\* One call of parse_message, on the message at the head of the channel
ParseMessage ==
    /\ wpc = "loop"
    /\ chan # <<>>
    /\ \E cut \in Cuts :
       \E st0 \in {St(cut)} :
       \E message \in {recv_timeout(chan).message} :
       \E st2 \in {parse_message(st0, message, connection_ok, keyClock + 1)} :
       \E stored \in {\E i \in DOMAIN st2.log : st2.log[i].type = "store"} :
         /\ stored => keyClock + 1 <= MaxKey
         /\ db' = st2.db
         /\ count' = st2.count
         /\ up' = st2.up
         /\ msgLog' = st2.log
         /\ lastMsg' = Some([message |-> message, now |-> keyClock + 1,
                             conn_ok |-> connection_ok, before |-> db])
         /\ keyClock' = IF stored THEN keyClock + 1 ELSE keyClock
    /\ chan' = recv_timeout(chan).rest
    /\ UNCHANGED <<location, connection_ok, wpc, waited, cycle, cycleLog>>
    /\ UNCHANGED dvars
    /\ UNCHANGED evars

SentenceNext == ParseMessage

\* The worker in its loop, with any one message in the channel
SentenceStart ==
    /\ DispatcherInit /\ EndpointInit /\ protocol = "tcp"
    /\ location \in LocationMaps
    /\ up \in [SinksOf(location) -> BOOLEAN]
    /\ db = EmptyDb
    /\ count = 0
    /\ connection_ok \in BOOLEAN
    /\ chan \in {<<m>> : m \in LocationMessages}
    /\ wpc = "loop"
    /\ waited = 0
    /\ keyClock = 0
    /\ cycle = NoCycle
    /\ cycleLog = <<>>
    /\ msgLog = <<>>
    /\ lastMsg = None

SentenceSpec == SentenceStart /\ [][SentenceNext]_vars

\* A Persistence opened on a store of the worker, and any calls on it
PersistenceNext ==
    \/ PersistenceStore
    \/ PersistenceRemove
    \/ PersistenceClear

PersistenceSpec == Init /\ [][PersistenceNext]_vars

\* The same program with a store whose iterator never fails to read.
ReadableStep == ReadableStart \/ ReadableReceive \/ ReadableTimeout

ReadableNext ==
    \/ ReadableStart
    \/ ReadableReceive
    \/ ReadableTimeout
    \/ WorkerWait
    \/ Handoff
    \/ SinkDown
    \/ SinkUp

ReadableSpec == Init /\ [][ReadableNext]_vars

\* The worker thread keeps running: a step of location_loop that can be
\* taken is taken, and the wait in recv_timeout goes on while nothing arrives.
FairReadableSpec ==
    /\ Init
    /\ [][ReadableNext]_vars
    /\ WF_vars(ReadableStep)
    /\ WF_vars(WorkerWait)

-----------------------------------------------------------------------------
(* Claims about the Location worker *)

SentOk(log, value, s) ==
    \E j \in DOMAIN log :
        /\ log[j].type = "send"
        /\ log[j].sink = s
        /\ log[j].value = value
        /\ log[j].ok

\* C1: a record leaves the store only in a resend cycle, and only after
\* send_message has returned Ok for its value on every Location sink
\* earlier in that same cycle.
C1_RemovedOnlyAfterSentToAll ==
    [][\A k \in DOMAIN db \ DOMAIN db' :
          \E i \in DOMAIN cycleLog' :
              /\ cycleLog'[i].type = "remove"
              /\ cycleLog'[i].key = k
              /\ \A s \in SinksOf(location) :
                    SentOk(SubSeq(cycleLog', 1, i - 1), db[k], s)]_vars

C1_Witness ==
    /\ Len(location) = 2
    /\ \E i \in DOMAIN cycleLog : cycleLog[i].type = "remove"

\* C2 as claimed: after a resend cycle that returned Ok, every key that was
\* in the store when it began is absent and its value was sent to every sink.
C2_AllKeysGone ==
    (cycle.ran /\ cycle.ok) =>
        \A k \in DOMAIN cycle.before :
            /\ k \notin DOMAIN cycle.after
            /\ \A s \in SinksOf(location) : SentOk(cycleLog, cycle.before[k], s)

\* C2 as amended: after a resend cycle that returned Ok, every key that was
\* in the store when it began and that the iterator read without error is
\* absent and its value was sent to every sink; an entry the iterator could
\* not read stays in the store.
C2_ReadKeysGone ==
    (cycle.ran /\ cycle.ok) =>
        /\ \A k \in DOMAIN cycle.before \ cycle.bad :
            /\ k \notin DOMAIN cycle.after
            /\ \A s \in SinksOf(location) : SentOk(cycleLog, cycle.before[k], s)
        /\ \A k \in cycle.bad : k \in DOMAIN cycle.after

C2_Witness ==
    /\ cycle.ran
    /\ cycle.ok
    /\ Len(location) = 2
    /\ cycle.bad # {}
    /\ DOMAIN cycle.before \ cycle.bad # {}

\* C4: when parse_message has returned for a message, each sink either was
\* sent the formatted sentence or has a record under a key with its name
\* whose value is the sentence, CRLF included; and with one sink, which
\* cannot be reached, there is exactly one new record (count() = 1 when the
\* store was empty).
C4_SentOrStored ==
    lastMsg # None =>
        LET m == lastMsg[1]
            nmea == nmea_message(m.message, m.now, OwnMmsi)[1]
        IN  /\ nmea[Len(nmea)] = "\r\n"
            /\ \A s \in SinksOf(location) :
                  \/ SentOk(msgLog, nmea, s)
                  \/ \E k \in DOMAIN db : k[2] = s /\ db[k] = nmea
            /\ (Len(location) = 1 /\ ~SentOk(msgLog, nmea, location[1])) =>
                  /\ Cardinality(DOMAIN db \ DOMAIN m.before) = 1
                  /\ m.before = EmptyDb => count = 1

C4_Witness ==
    /\ lastMsg # None
    /\ \E i \in DOMAIN msgLog : msgLog[i].type = "send" /\ msgLog[i].ok
    /\ \E i \in DOMAIN msgLog : msgLog[i].type = "send" /\ ~msgLog[i].ok
    /\ \E i \in DOMAIN msgLog : msgLog[i].type = "store"

C4_WitnessSingleSink ==
    /\ lastMsg # None
    /\ Len(location) = 1
    /\ lastMsg[1].before = EmptyDb
    /\ count = 1

\* C5: when a send of the new message fails in parse_message, the sentence
\* is stored and connection_ok is false afterwards.
C5_FlagClearedOnFailedSend ==
    (lastMsg # None /\ \E i \in DOMAIN msgLog :
                          msgLog[i].type = "send" /\ ~msgLog[i].ok)
        => (/\ \E i \in DOMAIN msgLog : msgLog[i].type = "store"
            /\ ~connection_ok)

\* C6: no sentence is sent successfully to a sink while the store holds the
\* sentence of an earlier message.
NoOvertaking(log) ==
    \A i \in DOMAIN log :
        (log[i].type = "send" /\ log[i].ok) =>
            \A k \in log[i].held : ~(k[1] < log[i].key[1])

C6_OrderPerSink == NoOvertaking(cycleLog) /\ NoOvertaking(msgLog)

\* C3: if from some point on every sink stays reachable, every record in the
\* store is eventually sent and removed: the store becomes and stays empty.
AllUp == \A s \in SinksOf(location) : up[s]

C3_EventuallyDrained == <>[]AllUp => <>[](db = EmptyDb)

-----------------------------------------------------------------------------
(* The Dispatcher: rate limit and location schedule *)

\* the step runs check_last_sent on a VesselDynamicData or VesselStaticData
\* message and the check permits the broadcast, as it did once before
PermitsAgain ==
    /\ emit' # NoEmit
    /\ emit'[1].checked
    /\ emit'[1].permit
    /\ IsSome(lastPermit[FieldOf(emit'[1].message)])

SincePermit ==
    lastPermit'[FieldOf(emit'[1].message)][1]
        - lastPermit[FieldOf(emit'[1].message)][1]

\* C7: two consecutive AIS broadcasts that check_last_sent permits for one
\* MMSI and one field are at least `interval` seconds apart, and at least
\* `location_interval` seconds when the message is an own-vessel one.
C7_BroadcastsApart ==
    [][PermitsAgain => SincePermit >= IntervalOf(emit'[1].message)]_vars

\* the same two broadcasts, both permitted by one Dispatcher
C7_ApartInOneDispatcher ==
    [][(/\ PermitsAgain
        /\ emit'[1].message.mmsi \in DOMAIN last_sent
        /\ Some(last_sent[emit'[1].message.mmsi][FieldOf(emit'[1].message)])
               = lastPermit[FieldOf(emit'[1].message)])
       => SincePermit >= IntervalOf(emit'[1].message)]_vars

\* C8: the first VesselDynamicData and the first VesselStaticData seen of an
\* MMSI are each permitted for broadcast, whatever earlier message of the
\* other kind was seen of that MMSI.
C8_FirstSightPermitted ==
    (emit # NoEmit /\ emit[1].checked /\ emit[1].first) => emit[1].permit

\* the step hands a message to the Location worker, and it is not the first
\* handoff
HandsAgain == emit' # NoEmit /\ emit'[1].handed /\ IsSome(lastHandoff)

SinceHandoff == lastHandoff'[1].time - lastHandoff[1].time

MovedSinceHandoff ==
    is_moving(Some(lastHandoff'[1].lat), Some(lastHandoff'[1].long),
              lastHandoff[1].lat, lastHandoff[1].long)

\* C9 as stated: two consecutive handoffs to the Location worker are at most
\* location_anchor_interval apart.
C9_HandoffGapBounded ==
    [][HandsAgain => SinceHandoff <= location_anchor_interval]_vars

\* the step takes a location-eligible message as far as the location
\* schedule, location_anchor_interval or more after last_sent_location
AnchorDue ==
    /\ emit' # NoEmit
    /\ emit'[1].eligible
    /\ ~emit'[1].failed
    /\ clock >= last_sent_location + location_anchor_interval

\* C9: a location-eligible message whose processing reaches the location
\* schedule location_anchor_interval or more after last_sent_location is
\* handed to the Location worker, whether or not the vessel moves.
C9_AnchorForcesHandoff == [][AnchorDue => emit'[1].handed]_vars

\* a second handoff of a vessel that is_moving found at rest
C9_Witness ==
    /\ emit # NoEmit
    /\ emit[1].eligible
    /\ emit[1].handed
    /\ emit[1].again
    /\ ~emit[1].moving

\* C10: when two consecutive handoffs are less than location_anchor_interval
\* apart, the position of the second is more than 0.001 degrees of latitude
\* or of longitude away from the position of the first (an absent coordinate
\* counts as 0.0, as it does in prev_lat and prev_long).
C10_MotionBetweenHandoffs ==
    [][(HandsAgain /\ SinceHandoff < location_anchor_interval)
       => MovedSinceHandoff]_vars

\* C11: once an Rmc sentence has been processed, no VesselDynamicData message
\* is handed to the Location worker, whether or not the Dispatcher has been
\* rebuilt since.
C11_NoAisLocationAfterRmc ==
    [][("rmc" \in seen /\ emit' # NoEmit /\ emit'[1].handed)
       => emit'[1].message.kind # "VesselDynamicData"]_vars

-----------------------------------------------------------------------------
(* send_message on a tcp-connect endpoint *)

\* C12: after a call of send_message on a tcp-connect endpoint has failed,
\* the endpoint holds no stream; the next call connects before it writes, and
\* no call writes to a socket that an earlier call failed on.
C12_FreshConnectAfterFailure ==
    protocol = "tcp" =>
        /\ (call # NoCall /\ ~call[1].ok) => tcp_stream = <<>>
        /\ (call # NoCall /\ call[1].after_failure) => call[1].connect
        /\ call # NoCall => ~call[1].rewrote

C12_Witness ==
    /\ protocol = "tcp"
    /\ call # NoCall
    /\ call[1].after_failure
    /\ call[1].ok
    /\ failed_sockets # {}

\* C13: the payload of a broadcast is the lines of the broadcast message, in
\* the order of their arrival: the lines the parser called Incomplete for it,
\* then the line that completed it, and nothing of another message.
C13_PayloadIsOwnLines ==
    (emit # NoEmit /\ IsSome(emit[1].payload))
        => emit[1].payload[1] = Join(emit[1].lines)

\* C14: whenever work returns an error (a provider read error or a failed
\* send to an AIS sink) the loop of main pauses, builds a new Dispatcher and
\* reads from the provider again: the process does not exit, and the Location
\* worker and its channel stay as they are.
C14_RestartsAfterError ==
    [][(lastRead' = "error" \/ (emit' # NoEmit /\ emit'[1].failed))
       => /\ running'
          /\ clock' = clock + RestartSleep
          /\ provider' = "none" /\ last_sent' = <<>> /\ fragments' = <<>>
          /\ UNCHANGED wvars]_vars

\* C15: when the provider has closed the connection (the read returns end of
\* file) or a read from the provider fails, work returns an error: main
\* sleeps, and the Dispatcher it builds holds no connection, so that its
\* first read opens a new one.
C15_EofOrErrorLeavesWork ==
    [][lastRead' \in {"eof", "error"}
       => /\ clock' = clock + RestartSleep
          /\ running' => (provider' = "none" /\ fragments' = <<>>)]_vars

FailedSend(log) == \E i \in DOMAIN log : log[i].type = "send" /\ ~log[i].ok

\* C16: a failed send to a Location sink stays inside the worker: its loop
\* goes on, and the step leaves the Dispatcher as it is; location_loop does
\* not return while the channel has a sender.
C16_SendFailureStaysInWorker ==
    [][/\ wpc' \in {"start", "loop"}
       /\ (FailedSend(cycleLog') \/ FailedSend(msgLog'))
              => (wpc' = "loop" /\ UNCHANGED dvars)]_vars

\* the worker has stored the message it could not send, and waits for the
\* next one
C16_Witness ==
    /\ FailedSend(msgLog) /\ wpc = "loop"
    /\ \E i \in DOMAIN msgLog : msgLog[i].type = "store"

\* C17: a message placed on the handoff channel is an Rmc, or a
\* VesselDynamicData with own_vessel true; a VesselStaticData, or the dynamic
\* data of another vessel, is never handed to the Location worker.
C17_OnlyOwnPositionHanded ==
    (emit # NoEmit /\ emit[1].handed)
        => \/ emit[1].message.kind = "Rmc"
           \/ /\ emit[1].message.kind = "VesselDynamicData"
              /\ emit[1].message.own_vessel

\* the dynamic data of the own vessel is handed over, after dynamic and
\* static data have gone through the rate limit
C17_Witness ==
    /\ emit # NoEmit /\ emit[1].handed
    /\ emit[1].message.kind = "VesselDynamicData"
    /\ seen = {"vessel_dynamic_data", "vessel_static_data"}
    /\ last_sent # <<>>

\* C18: when a send fails in a resend cycle, resend_messages returns the
\* error at once: the failed send is the last thing the cycle does, the
\* record it was replaying and every record after it in key order are still
\* in the store, and the records replayed before it are gone.
C18_FailedCycleStopsAtOnce ==
    (cycle.ran /\ ~cycle.ok) =>
        LET keys == Persistence_iter(cycle.before)
            n == Len(cycleLog)
        IN  /\ n > 0
            /\ cycleLog[n].type = "send" /\ ~cycleLog[n].ok
            /\ \A i \in 1 .. n - 1 :
                  cycleLog[i].type = "send" => cycleLog[i].ok
            /\ \E p \in DOMAIN keys :
                  /\ keys[p] = cycleLog[n].key
                  /\ \A q \in p .. Len(keys) :
                        /\ keys[q] \in DOMAIN cycle.after
                        /\ cycle.after[keys[q]] = cycle.before[keys[q]]
                  /\ \A q \in 1 .. p - 1 :
                        keys[q] \notin cycle.bad
                            => keys[q] \notin DOMAIN cycle.after

\* a cycle over three records that replays and removes the first and fails
\* on the second
C18_Witness ==
    /\ cycle.ran /\ ~cycle.ok
    /\ Cardinality(DOMAIN cycle.before) = 3
    /\ Cardinality(DOMAIN cycle.after) = 2

\* the keys whose value a sink took in the cycle before a later sink
\* refused it
PartlySent ==
    {k \in DOMAIN cycle.before :
        \E i, j \in DOMAIN cycleLog :
            /\ i < j
            /\ cycleLog[i].type = "send" /\ cycleLog[i].key = k /\ cycleLog[i].ok
            /\ cycleLog[j].type = "send" /\ cycleLog[j].key = k /\ ~cycleLog[j].ok}

\* C19 as claimed: in a resend cycle with several sinks, when the send of a
\* stored value succeeds on the sinks iterated first and fails on a later
\* one, the key of that value is removed from the store all the same.
C19_PartlySentKeyRemoved ==
    cycle.ran => \A k \in PartlySent : k \notin DOMAIN cycle.after

\* C19 as amended: in a resend cycle with several sinks, when the send of a
\* stored value succeeds on the sinks iterated first and fails on a later
\* one, the cycle ends there and the record stays in the store with its
\* value, to be sent to every sink again by a later cycle.
C19_PartlySentKeyKept ==
    cycle.ran =>
        \A k \in PartlySent :
            /\ ~cycle.ok
            /\ k \in DOMAIN cycle.after
            /\ cycle.after[k] = cycle.before[k]

C19_Witness ==
    /\ cycle.ran
    /\ Len(location) = 2
    /\ PartlySent # {}

\* the sends of the cycle that carry the value of key k to sink s
SendsOf(k, s) ==
    {i \in DOMAIN cycleLog :
        /\ cycleLog[i].type = "send"
        /\ cycleLog[i].key = k
        /\ cycleLog[i].sink = s}

\* C20: a resend cycle sends each stored value it replays to every Location
\* sink, whatever sink name its key carries, once per record: a sink that
\* took the sentence when it was new gets it again, and a message stored
\* under N keys is sent N times to each sink.
C20_EachRecordToEverySink ==
    cycle.ran =>
        \A k \in DOMAIN cycle.before \ DOMAIN cycle.after :
        \A s \in SinksOf(location) :
            /\ Cardinality(SendsOf(k, s)) = 1
            /\ \A i \in SendsOf(k, s) :
                  cycleLog[i].ok /\ cycleLog[i].value = cycle.before[k]

\* one message stored under the names of two sinks is replayed: each sink is
\* sent the sentence twice
C20_Witness ==
    /\ cycle.ran /\ cycle.ok
    /\ Len(location) = 2
    /\ \E k1, k2 \in DOMAIN cycle.before \ DOMAIN cycle.after :
          /\ k1[2] # k2[2]
          /\ cycle.before[k1] = cycle.before[k2]
          /\ \A s \in SinksOf(location) :
                Cardinality(SendsOf(k1, s) \cup SendsOf(k2, s)) = 2

\* C21: for each MMSI and each field the last-sent timestamp never decreases
\* and the row of an MMSI is never removed while the process runs, a
\* reconstruction of the Dispatcher after an I/O error included.
C21_LastSentMonotonic ==
    [][\A m \in DOMAIN last_sent :
          /\ m \in DOMAIN last_sent'
          /\ \A f \in {"vessel_dynamic_data", "vessel_static_data"} :
                last_sent'[m][f] >= last_sent[m][f]]_vars

\* the same, for the steps of one Dispatcher
C21_MonotonicInOneDispatcher ==
    [][(running' /\ clock' = clock /\ lastRead' = "line"
            /\ ~(emit' # NoEmit /\ emit'[1].failed))
       => \A m \in DOMAIN last_sent :
             /\ m \in DOMAIN last_sent'
             /\ \A f \in {"vessel_dynamic_data", "vessel_static_data"} :
                   last_sent'[m][f] >= last_sent[m][f]]_vars

\* the endpoint holds at most one stream; a call of send_message that has
\* left a stream behind wrote to it with success, and a call whose write
\* failed has left none
OneStream ==
    /\ Len(tcp_stream) <= 1
    /\ tcp_stream # <<>> =>
          /\ call # NoCall
          /\ call[1].ok
          /\ call[1].wrote = Some(tcp_stream[1])
    /\ (call # NoCall /\ IsSome(call[1].wrote) /\ ~call[1].ok)
          => tcp_stream = <<>>

\* C22: a tcp-connect endpoint used as a sink holds at most one stream in
\* every state: send_message opens a connection only when it holds no
\* stream once those with a gone peer are pruned, and a failed write empties
\* the list.
C22_AtMostOneStream ==
    [][/\ OneStream'
       /\ sockets' # sockets
             => \A i \in DOMAIN tcp_stream : tcp_stream[i] \in gone]_vars

\* a call writes to the stream an earlier call has opened, after the
\* endpoint has been through a reconnect
C22_Witness ==
    /\ call # NoCall /\ ~call[1].connect /\ call[1].ok
    /\ Len(tcp_stream) = 1
    /\ sockets >= 2

\* C23: while the process runs, the fragment accumulator is empty after the
\* Dispatcher has processed a line whose parse result is not Incomplete: a message that was broadcast
\* or held back by the rate limit, a message of an ignored type, or a line
\* the parser rejects.
C23_FragmentsClearedAfterLine ==
    (running /\ emit # NoEmit /\ emit[1].message.kind # "Incomplete")
        => fragments = <<>>

\* the same for the lines that work classifies or the parser rejects
C23_ClearedUnlessOtherType ==
    (/\ running /\ emit # NoEmit
     /\ emit[1].message.kind \notin {"Incomplete", "Other"})
        => fragments = <<>>

\* the three places where location_loop calls resend_messages
AtStart == wpc = "start" /\ wpc' # "start"
AtTimeout ==
    /\ wpc = "loop" /\ chan = <<>>
    /\ waited * TickSecs >= MESSAGE_TIMEOUT
    /\ waited' = 0
AtArrival == wpc = "loop" /\ Len(chan') < Len(chan)

\* C24: the worker runs a resend cycle at start, on every receive timeout,
\* and on the arrival of a message exactly when the connection-ok flag is
\* false, and then before the message is formatted and sent; the flag takes
\* the outcome of each cycle; no cycle runs in any other step.
C24_ResendCyclePoints ==
    [][/\ AtStart => (cycle'.ran /\ connection_ok' = cycle'.ok)
       /\ AtTimeout => (cycle'.ran /\ connection_ok' = cycle'.ok)
       /\ AtArrival =>
             /\ cycle'.ran <=> ~connection_ok
             /\ lastMsg' # None
             /\ cycle'.ran =>
                   /\ lastMsg'[1].conn_ok = cycle'.ok
                   /\ lastMsg'[1].before = cycle'.after
             /\ ~cycle'.ran => lastMsg'[1].conn_ok
       /\ cycle'.ran => (AtStart \/ AtTimeout \/ AtArrival)
       /\ ~(AtStart \/ AtTimeout \/ AtArrival) => db' = db]_vars

\* a message has arrived while the flag was false: the cycle ran first and
\* failed, and the message went to the store
C24_Witness ==
    /\ cycle.ran /\ ~cycle.ok
    /\ lastMsg # None /\ ~lastMsg[1].conn_ok
    /\ \E i \in DOMAIN msgLog : msgLog[i].type = "store"

\* C25: when the cached count of the Persistence is zero, resend_messages
\* returns success and has done nothing: no send to a sink, no walk of the
\* store, no change of the store or of a sink.
C25_NothingToResend ==
    [][(cycle'.ran /\ count = 0)
       => /\ cycle'.ok
          /\ cycleLog' = <<>>
          /\ cycle'.after = cycle'.before
          /\ cycle'.before = db
          /\ count' = 0 \/ AtArrival
          /\ ~AtArrival => (db' = db /\ up' = up)]_vars

\* a timeout with nothing in the store, all sinks unreachable
C25_Witness ==
    /\ cycle.ran /\ cycle.ok
    /\ cycle.before = EmptyDb
    /\ count = 0
    /\ lastMsg = None
    /\ wpc = "loop"
    /\ Len(location) = 2
    /\ \A s \in SinksOf(location) : ~up[s]

-----------------------------------------------------------------------------
(* The Persistence *)

\* C26: after any calls of store, remove and clear on a Persistence, count()
\* is the number of keys in the store: store adds one only for an absent key,
\* remove subtracts one only for a present key, and the count never goes
\* below zero.
C26_CountIsNumberOfKeys ==
    /\ count = Cardinality(DOMAIN db)
    /\ count >= 0

\* the same for the calls of store and remove alone: the count is never
\* below the number of keys, and equals it while no clear has been called
C26_CountCoversKeys ==
    [][/\ count' >= Cardinality(DOMAIN db')
       /\ (count = Cardinality(DOMAIN db) /\ db' # EmptyDb)
             => count' = Cardinality(DOMAIN db')]_vars

-----------------------------------------------------------------------------
(* The Location worker: order of the replay *)

\* C27: within a resend cycle the stored records are sent in ascending key
\* order: of two records whose keys carry different times, the one with the
\* earlier time is sent to each sink before the other.
C27_ReplayInKeyOrder ==
    \A i, j \in DOMAIN cycleLog :
        (/\ i < j
         /\ cycleLog[i].type = "send"
         /\ cycleLog[j].type = "send")
            => /\ ~KeyLess(cycleLog[j].key, cycleLog[i].key)
               /\ cycleLog[i].key[1] <= cycleLog[j].key[1]

\* a cycle has sent a record stored at time 0 and then one stored at time 1
\* to the two sinks
C27_Witness ==
    /\ cycle.ran /\ cycle.ok
    /\ Len(location) = 2
    /\ \E i, j \in DOMAIN cycleLog :
          /\ i < j
          /\ cycleLog[i].type = "send" /\ cycleLog[j].type = "send"
          /\ cycleLog[i].key[1] < cycleLog[j].key[1]
          /\ cycleLog[i].sink = cycleLog[j].sink

\* C28: the handoff channel is first-in first-out and loses nothing: a send
\* puts its message behind those waiting, whatever the worker is doing; the
\* worker takes the message that has waited longest, once; no other step
\* touches the channel.
C28_ChannelFifo ==
    [][/\ AtArrival =>
             /\ lastMsg' # None
             /\ lastMsg'[1].message = Head(chan)
             /\ chan' = Tail(chan)
       /\ Len(chan') > Len(chan) =>
             /\ Len(chan') = Len(chan) + 1
             /\ SubSeq(chan', 1, Len(chan)) = chan
             /\ UNCHANGED <<wpc, db, count, connection_ok, up>>
       /\ Len(chan') = Len(chan) => chan' = chan]_vars

\* the worker has taken the first of two different messages, and the second
\* waits
C28_Witness ==
    /\ lastMsg # None
    /\ chan # <<>>
    /\ chan[1] # lastMsg[1].message
    /\ wpc = "loop"

-----------------------------------------------------------------------------
(* The Dispatcher: spacing of the handoffs *)

\* C29: two consecutive handoffs of a location message to the Location
\* worker are at least location_interval seconds apart, whatever the inputs
\* and the I/O errors.
C29_HandoffsApart ==
    [][HandsAgain => SinceHandoff >= location_interval]_vars

\* the same for two handoffs of one Dispatcher
C29_ApartInOneDispatcher ==
    [][(HandsAgain /\ last_sent_location = lastHandoff[1].time)
       => SinceHandoff >= location_interval]_vars

\* C30: the first location-eligible message with a position that a
\* Dispatcher processes after its start is handed to the Location worker at
\* once, whatever the position.
C30_InitialEmission ==
    (emit # NoEmit /\ emit[1].initial) => emit[1].handed

\* the same for a position that is_moving tells from (0.0, 0.0), in a
\* Dispatcher that has handed nothing yet
C30_InitialEmissionAwayFromZero ==
    [][(/\ emit' # NoEmit /\ emit'[1].initial /\ emit'[1].moving
        /\ prev_lat = 0 /\ prev_long = 0 /\ clock >= next_instant)
       => emit'[1].handed]_vars

-----------------------------------------------------------------------------
(* The Dispatcher: messages without a position *)

\* coordinates as a message carries them
Coordinates == {None, Some(0), Some(3)}

\* is_moving is false when the latitude or the longitude is absent
NoPositionNotMoving ==
    \A lat, long \in Coordinates :
        (lat = None \/ long = None)
            => ~is_moving(lat, long, prev_lat, prev_long)

\* a message without a position is handed over only at or after the anchor
\* deadline
NoPositionWaitsForAnchor ==
    (emit' # NoEmit /\ emit'[1].handed /\ ~emit'[1].position)
        => clock >= next_anchor_instant

\* C31: is_moving is false whenever latitude or longitude is absent, so a
\* location-eligible message without a position is handed to the Location
\* worker only when the anchor deadline has passed; and prev_lat and
\* prev_long change only when a handoff happens.
C31_NoPositionOnlyAtAnchor ==
    [][/\ NoPositionNotMoving
       /\ NoPositionWaitsForAnchor
       /\ (prev_lat' # prev_lat \/ prev_long' # prev_long)
             => (emit' # NoEmit /\ emit'[1].handed)]_vars

\* the same, where the reference position may also change when work begins
\* again
C31_InOneDispatcher ==
    [][/\ NoPositionNotMoving
       /\ NoPositionWaitsForAnchor
       /\ (prev_lat' # prev_lat \/ prev_long' # prev_long)
             => \/ emit' # NoEmit /\ emit'[1].handed
                \/ clock' = clock + RestartSleep /\ prev_lat' = 0
                   /\ prev_long' = 0]_vars

-----------------------------------------------------------------------------
(* send_message on a listening endpoint *)

\* C32: send_message on a tcp-listen or udp-listen endpoint returns success
\* without transmitting anything, and leaves the listener, the stream list
\* and the socket of the endpoint as they are.
C32_ListenSinkIsNoOp ==
    [][(protocol \in {"tcp-listen", "udp-listen"})
       => (/\ call' # NoCall =>
                 /\ call'[1].ok
                 /\ ~call'[1].connect
                 /\ call'[1].wrote = None
           /\ tcp_listener' = tcp_listener
           /\ udp_socket' = udp_socket
           /\ tcp_stream' = tcp_stream
           /\ sockets' = sockets)]_vars

C32_Witness ==
    /\ protocol \in {"tcp-listen", "udp-listen"}
    /\ call # NoCall
    /\ call[1].ok

-----------------------------------------------------------------------------
(* The shape of the location sentence *)

\* the fields of a sentence: what stands between its commas
RECURSIVE Fields(_)
Fields(v) ==
    IF \A i \in DOMAIN v : v[i] # "," THEN <<v>>
    ELSE LET c == CHOOSE i \in DOMAIN v :
                      v[i] = "," /\ \A j \in 1 .. i - 1 : v[j] # ","
         IN  <<SubSeq(v, 1, c - 1)>> \o Fields(SubSeq(v, c + 1, Len(v)))

SentenceShape(message, v) ==
    LET f == Fields(v)
    IN  /\ Len(f) = 13
        /\ Len(f[1]) = 2 /\ f[1][2] = "$GNRMC"
        /\ f[3] = <<"A">>
        /\ f[13] = <<"A", "\r\n">>
        /\ message.latitude = None => f[4] = <<>> /\ f[5] = <<>>
        /\ message.latitude # None => Len(f[4]) = 1 /\ f[5] \in {<<"N">>, <<"S">>}
        /\ message.longitude = None => f[6] = <<>> /\ f[7] = <<>>
        /\ message.longitude # None => Len(f[6]) = 1 /\ f[7] \in {<<"E">>, <<"W">>}

\* C33: the sentence the worker builds for a VesselDynamicData or an Rmc
\* message has 13 comma-separated fields from the $GNRMC tag to the final A
\* and ends with CRLF, whatever fields of the message are absent; an absent
\* latitude or longitude leaves its two fields empty.
C33_SentenceHasThirteenFields ==
    lastMsg # None =>
        \A i \in DOMAIN msgLog :
            msgLog[i].type \in {"send", "store"}
                => SentenceShape(lastMsg[1].message, msgLog[i].value)

C33_Witness ==
    /\ lastMsg # None
    /\ lastMsg[1].message.kind = "Rmc"
    /\ lastMsg[1].message.latitude = None
    /\ lastMsg[1].message.longitude # None
    /\ lastMsg[1].message.sog_knots = None
    /\ msgLog # <<>>
    /\ msgLog[1].type \in {"send", "store"}

-----------------------------------------------------------------------------
(* parse_message while the sinks are taken to be down *)

StoresOf(log, key) ==
    {i \in DOMAIN log : log[i].type = "store" /\ log[i].key = key}

\* C34: when parse_message is called with connection_ok false, it makes no
\* send attempt for the message and stores the sentence once for each
\* Location sink, under the key made of the one timestamp of the call and the
\* name of the sink.
C34_StoredWithoutSend ==
    (lastMsg # None /\ ~lastMsg[1].conn_ok) =>
        LET m == lastMsg[1]
            nmea == nmea_message(m.message, m.now, OwnMmsi)[1]
        IN  /\ \A i \in DOMAIN msgLog : msgLog[i].type = "store"
            /\ Len(msgLog) = Len(location)
            /\ \A s \in SinksOf(location) :
                 /\ Cardinality(StoresOf(msgLog, <<m.now, s>>)) = 1
                 /\ <<m.now, s>> \in DOMAIN db
                 /\ db[<<m.now, s>>] = nmea

\* a message stored for two sinks right after a resend cycle that failed
C34_Witness ==
    /\ lastMsg # None
    /\ ~lastMsg[1].conn_ok
    /\ Len(location) = 2
    /\ cycle.ran
    /\ ~cycle.ok
    /\ Len(msgLog) = 2

-----------------------------------------------------------------------------
(* The broadcast comes before the handoff *)

\* C35: an own-vessel VesselDynamicData message is handed to the Location
\* worker only when its AIS broadcast, if the rate limit permitted one, has
\* sent it to every AIS sink; when the send to any AIS sink failed, the
\* message is not handed over.
C35_HandoffAfterBroadcast ==
    (emit # NoEmit /\ emit[1].message.kind = "VesselDynamicData") =>
        /\ (emit[1].handed /\ emit[1].permit) =>
              /\ DOMAIN emit[1].ais = DOMAIN AisSinks
              /\ \A i \in DOMAIN emit[1].ais : emit[1].ais[i]
        /\ (\E i \in DOMAIN emit[1].ais : ~emit[1].ais[i]) => ~emit[1].handed

\* an own-vessel message broadcast to both sinks and then handed over
C35_Witness ==
    /\ emit # NoEmit
    /\ emit[1].message.kind = "VesselDynamicData"
    /\ emit[1].eligible
    /\ emit[1].permit
    /\ emit[1].handed
    /\ Len(emit[1].ais) = 2

-----------------------------------------------------------------------------
(* The Dispatcher beside a dead Location worker *)

\* C36: once the Location worker thread has terminated, the Dispatcher keeps
\* running, also through a step that attempts a location handoff.
C36_SurvivesDeadWorker ==
    [][(wpc = "panicked" /\ running) => running']_vars

\* with the worker dead the Dispatcher runs on through every step but one
\* that attempts a handoff
C36_RunsUntilHandoff ==
    [][(wpc = "panicked" /\ running /\ ~(emit' # NoEmit /\ emit'[1].panicked))
       => running']_vars

\* the Dispatcher broadcasts a message after the worker has died
C36_BroadcastBesideDeadWorker ==
    /\ wpc = "panicked"
    /\ running
    /\ emit # NoEmit
    /\ emit[1].permit
    /\ ~emit[1].failed

-----------------------------------------------------------------------------
(* What goes to the AIS sinks *)

AisTypes == {"VesselDynamicData", "VesselStaticData"}

\* C38: a line whose message is neither a VesselDynamicData nor a
\* VesselStaticData causes no send to an AIS sink and leaves the table of
\* LastSent rows as it is.
C38_OnlyAisTypesBroadcast ==
    [][(emit' # NoEmit /\ emit'[1].message.kind \notin AisTypes)
       => /\ ~emit'[1].permit
          /\ emit'[1].ais = <<>>
          /\ emit'[1].payload = None
          /\ last_sent' = last_sent]_vars

\* an Rmc sentence handed to the Location worker while the table has a row
C38_Witness ==
    /\ emit # NoEmit
    /\ emit[1].message.kind = "Rmc"
    /\ emit[1].handed
    /\ DOMAIN last_sent # {}

-----------------------------------------------------------------------------
(* Reading from a tcp-listen provider *)

\* the step is a read of the provider at which the listener is there and
\* every accepted stream, if there is one, reports WouldBlock
IdleRead ==
    /\ call' # NoCall
    /\ lastRead' \in {"line", "error"}
    /\ call'[1].idle

\* C37: a read of a tcp-listen provider at which no accepted stream has a
\* line keeps the listener and the accepted streams, does not rebuild the
\* Dispatcher, and leaves its rate-limit table, fragment accumulator and
\* location schedule as they are.
C37_IdleReadKeepsAll ==
    [][IdleRead
       => /\ tcp_listener'
          /\ tcp_stream' = call'[1].before
          /\ clock' = clock
          /\ last_sent' = last_sent
          /\ fragments' = fragments
          /\ last_sent_location' = last_sent_location
          /\ next_instant' = next_instant
          /\ next_anchor_instant' = next_anchor_instant]_vars

\* a read at which a stream has a line keeps the listener and the streams
\* and the Dispatcher
C37_LineReadKeepsAll ==
    [][(call' # NoCall /\ lastRead' = "line")
       => /\ tcp_listener'
          /\ tcp_stream' = call'[1].before
          /\ clock' = clock
          /\ last_sent_location' = last_sent_location]_vars

\* a read that finds a line on the second stream after WouldBlock on the first
C37_LineAfterWouldBlock ==
    /\ call # NoCall
    /\ lastRead = "line"
    /\ Len(call[1].read) = 2
    /\ Len(tcp_stream) = 2

-----------------------------------------------------------------------------
(* The read loop of read_to_string on a tcp-listen endpoint *)

\* the streams of the call that come before the first one with a line, and
\* that one
UpToLine(before, outcome) ==
    LET lines == {i \in DOMAIN before : outcome[before[i]] = "line"}
    IN  IF lines = {} THEN before
        ELSE SubSeq(before, 1, CHOOSE i \in lines : \A j \in lines : i <= j)

\* C39: one tcp-listen read_to_string call reads the accepted streams in list
\* order up to the first that has a line, every one of them, and removes the
\* streams it read with an empty read or a read error, and no other.
C39_EveryStreamRead ==
    (call # NoCall /\ call[1].opened) =>
        LET c == call[1]
            dropped == {c.read[i] : i \in
                          {j \in DOMAIN c.read :
                              c.outcome[c.read[j]] \in {"empty", "error"}}}
        IN  /\ c.read = UpToLine(c.before, c.outcome)
            /\ tcp_stream = SelectSeq(c.before, LAMBDA w : w \notin dropped)

\* what the loop does keep to: it reads in list order and no stream twice,
\* it stops at the first line it reads, and it removes the streams it read
\* with an empty read or a read error, and no other
C39_ReadInOrderAndDropped ==
    (call # NoCall /\ call[1].opened) =>
        LET c == call[1]
            dropped == {c.read[i] : i \in
                          {j \in DOMAIN c.read :
                              c.outcome[c.read[j]] \in {"empty", "error"}}}
        IN  /\ \A i, j \in DOMAIN c.read : i < j => c.read[i] < c.read[j]
            /\ \A i \in DOMAIN c.read :
                  c.outcome[c.read[i]] = "line" => i = Len(c.read)
            /\ tcp_stream = SelectSeq(c.before, LAMBDA w : w \notin dropped)

\* a call that reads two streams, the first of them with an empty read
C39_EmptyThenLine ==
    /\ call # NoCall
    /\ call[1].opened
    /\ Len(call[1].read) = 2
    /\ call[1].outcome[call[1].read[1]] = "empty"
    /\ call[1].ok

====
